---- MODULE Spec2Model ----
(***************************************************************************)
(* A model of the C style/complexity linter of src/src/main.rs.            *)
(*                                                                         *)
(* C text is modelled by "shapes" (abstract statements and top-level       *)
(* items); Parse lays a shape out one statement per row and yields the     *)
(* syntax tree tree-sitter-c gives for that text (kinds, rows, children,   *)
(* tokens included).  The counting functions, lint, lint_identifiers,      *)
(* discover_files and main are translated from the source.                 *)
(***************************************************************************)
EXTENDS Integers, Sequences, FiniteSets, TLC

VARIABLES
    pc,          \* position of the running function / of main
    source,      \* the text handed to the function under study (a shape)
    linecount,   \* count_lines_*: the returned score
    sublints,    \* count_lines_*: the contributions appended during the call
    args,        \* main: Args.files, the CLI roots
    fs,          \* the file system: path -> file text
    gone,        \* paths that can no longer be read
    files,       \* main: the Vec<PathBuf> of files to lint
    idx,         \* main: position of the per-file loop / of the print loop
    identifiers, \* main: Vec<Identifier>
    lints,       \* main / lint: Vec<Lint>
    counted,     \* the texts the complexity counter was run on, per pass
    printed,     \* the finding lines written to stdout so far
    fileset,     \* discover_files: the returned set (or the way it ended)
    overflow_checks  \* the build: integer overflow panics (debug) or wraps

vars == <<pc, source, linecount, sublints, args, fs, gone, files, idx,
          identifiers, lints, counted, printed, fileset, overflow_checks>>

(***************************************************************************)
(* Bounds.                                                                 *)
(***************************************************************************)
MaxSpan == 2        \* rows a condition / expression / initializer may span
MaxStmts == 2       \* statements in a nested block
MaxCaseStmts == 3   \* statements in a case block

(***************************************************************************)
(* Generic helpers.                                                        *)
(***************************************************************************)
RECURSIVE SeqsUpTo(_, _)
SeqsUpTo(S, n) ==
    IF n = 0 THEN {<<>>}
    ELSE LET shorter == SeqsUpTo(S, n - 1)
         IN shorter \cup {Append(q, x) : q \in shorter, x \in S}

Last(q) == q[Len(q)]
Front(q) == SubSeq(q, 1, Len(q) - 1)

(***************************************************************************)
(* Shapes: the C text of a statement.                                      *)
(*   k    the construct                                                    *)
(*   n    rows spanned by its header (condition, expression, initializer,  *)
(*        for-clauses); 0 = absent (no initializer, no return value)       *)
(*   sub  the statements it holds                                          *)
(*   name an identifier: sequence of characters                            *)
(***************************************************************************)
S(k, n, sub, name) == [k |-> k, n |-> n, sub |-> sub, name |-> name]

xName == <<"x">>
DEBUG == <<"D", "E", "B", "U", "G">>
TRACE == <<"T", "R", "A", "C", "E">>

Decl(n) == S("decl", n, <<>>, xName)            \* int x;  /  int x = e;
Expr(n) == S("expr", n, <<>>, <<>>)             \* f(a);   (n rows)
Empty == S("empty", 0, <<>>, <<>>)              \* ;
Break == S("break", 0, <<>>, <<>>)              \* break;
Continue == S("continue", 0, <<>>, <<>>)        \* continue;
Return(n) == S("return", n, <<>>, <<>>)         \* return;  /  return e;
Goto == S("goto", 0, <<>>, <<>>)                \* goto l;
Label(s) == S("label", 0, <<s>>, <<>>)          \* l: s
Block(q) == S("block", 0, q, <<>>)              \* { q }
If(n, c) == S("if", n, <<c>>, <<>>)             \* if (e) c
IfElse(n, c, a) == S("if", n, <<c, a>>, <<>>)   \* if (e) c else a
While(n, b) == S("while", n, <<b>>, <<>>)       \* while (e) b
Do(n, b) == S("do", n, <<b>>, <<>>)             \* do b while (e);
For(n, b) == S("for", n, <<b>>, <<>>)           \* for (i; c; u) b
Switch(n, b) == S("switch", n, <<b>>, <<>>)     \* switch (e) b
Case(q) == S("case", 0, q, <<>>)                \* case 1: q
Default(q) == S("default", 0, q, <<>>)          \* default: q
Ifdef(m, q) == S("ifdef", 0, q, m)              \* #ifdef m q #endif
Ifndef(m, q) == S("ifndef", 0, q, m)            \* #ifndef m q #endif
IfdefElse(m, q, a) == S("ifdefelse", Len(q), q \o a, m)  \* #ifdef m q #else a #endif
MacroUse(m, q) == S("macro", 1, q, m)           \* m(a);  where m expands to q
Static(s) == S("static", 0, <<s>>, <<>>)        \* static s  (declaration, function)
Commented(s) == S("commented", 0, <<s>>, <<>>)  \* if / while / switch (e) /* k */ ..

(***************************************************************************)
(* Syntax-tree nodes as tree-sitter-c yields them: kind, start point       *)
(* (srow, scol), end row, children (tokens included), for identifiers and  *)
(* paths the text, and the name of the field of its parent's grammar rule  *)
(* that the node fills ("" if none).  Rows and columns are 0-based.        *)
(***************************************************************************)
Node(kind, srow, scol, erow, kids, text) ==
    [kind |-> kind, srow |-> srow, scol |-> scol, erow |-> erow,
     kids |-> kids, text |-> text, field |-> ""]

\* the node as the child that fills the field `name` of its parent
Field(name, node) == [node EXCEPT !.field = name]

\* a one-row leaf
Tok(kind, r, c) == Node(kind, r, c, r, <<>>, <<>>)

NextRow(nodes, r) == IF nodes = <<>> THEN r ELSE Last(nodes).erow + 1

RECURSIVE ShiftRow(_, _, _)
\* the tree with what it has on row r moved d columns to the right
ShiftRow(node, r, d) ==
    [node EXCEPT !.scol = IF node.srow = r THEN @ + d ELSE @,
                 !.kids = [i \in 1 .. Len(@) |-> ShiftRow(@[i], r, d)]]

\* the tree of a declaration or function definition written after "static"
WithStatic(t) ==
    [ShiftRow(t, t.srow, 7) EXCEPT
        !.scol = t.scol,
        !.kids = <<Tok("storage_class_specifier", t.srow, t.scol)>> \o @]

\* the tree of an if, while or switch statement with a comment written
\* between its condition and what follows
WithComment(t) ==
    [t EXCEPT !.kids = SubSeq(@, 1, 2)
                        \o <<Tok("comment", @[2].erow, @[2].scol + 4)>>
                        \o SubSeq(@, 3, Len(@))]

RECURSIVE Parse(_, _, _)
RECURSIVE ParseSeq(_, _, _)

ParseSeq(q, r, c) ==
    IF q = <<>> THEN <<>>
    ELSE LET h == Parse(Head(q), r, c)
         IN <<h>> \o ParseSeq(Tail(q), h.erow + 1, c)

\* Parse(s, r, c): the tree of statement s written from row r on at column
\* c: one statement per row, a nested statement and the braces and keywords
\* around it on rows of their own, nested statements indented by 4.
Parse(s, r, c) ==
    LET e == r + s.n - 1      \* last row of an n-row header
        expr(col) == Node("call_expression", r, col, e, <<>>, <<>>)
        paren(col) == Node("parenthesized_expression", r, col, e, <<>>, <<>>)
    IN
    CASE s.k = "decl" ->
            LET id == Node("identifier", r, c + 4, r, <<>>, s.name)
                eq == c + 5 + Len(s.name)
            IN IF s.n = 0
               THEN Node("declaration", r, c, r,
                         <<Field("type", Tok("primitive_type", r, c)),
                           Field("declarator", id),
                           Tok(";", r, c + 4 + Len(s.name))>>, <<>>)
               ELSE Node("declaration", r, c, e,
                         <<Field("type", Tok("primitive_type", r, c)),
                           Field("declarator",
                               Node("init_declarator", r, c + 4, e,
                                    <<Field("declarator", id), Tok("=", r, eq),
                                      Field("value", expr(eq + 2))>>, <<>>)),
                           Tok(";", e, c + 4)>>, <<>>)
      [] s.k \in {"expr", "macro"} ->
            Node("expression_statement", r, c, e,
                 <<expr(c), Tok(";", e, c + 4)>>, <<>>)
      [] s.k = "empty" ->
            Node("expression_statement", r, c, r, <<Tok(";", r, c)>>, <<>>)
      [] s.k = "break" ->
            Node("break_statement", r, c, r,
                 <<Tok("break", r, c), Tok(";", r, c + 5)>>, <<>>)
      [] s.k = "continue" ->
            Node("continue_statement", r, c, r,
                 <<Tok("continue", r, c), Tok(";", r, c + 8)>>, <<>>)
      [] s.k = "return" ->
            IF s.n = 0
            THEN Node("return_statement", r, c, r,
                      <<Tok("return", r, c), Tok(";", r, c + 6)>>, <<>>)
            ELSE Node("return_statement", r, c, e,
                      <<Tok("return", r, c), expr(c + 7), Tok(";", e, c + 4)>>,
                      <<>>)
      [] s.k = "goto" ->
            Node("goto_statement", r, c, r,
                 <<Tok("goto", r, c), Tok("statement_identifier", r, c + 5),
                   Tok(";", r, c + 6)>>, <<>>)
      [] s.k = "label" ->
            LET st == Parse(s.sub[1], r + 1, c + 4)
            IN Node("labeled_statement", r, c, st.erow,
                    <<Field("label", Tok("statement_identifier", r, c)),
                      Tok(":", r, c + 1), st>>,
                    <<>>)
      [] s.k = "block" ->
            LET sts == ParseSeq(s.sub, r + 1, c + 4)
                close == NextRow(sts, r + 1)
            IN Node("compound_statement", r, c, close,
                    <<Tok("{", r, c)>> \o sts \o <<Tok("}", close, c)>>, <<>>)
      [] s.k = "if" ->
            LET cons == Parse(s.sub[1], e + 1, c + 4)
            IN IF Len(s.sub) = 1
               THEN Node("if_statement", r, c, cons.erow,
                         <<Tok("if", r, c), Field("condition", paren(c + 3)),
                           Field("consequence", cons)>>, <<>>)
               ELSE LET er == cons.erow + 1
                        alt == Parse(s.sub[2], er + 1, c + 4)
                        clause == Node("else_clause", er, c, alt.erow,
                                       <<Tok("else", er, c), alt>>, <<>>)
                    IN Node("if_statement", r, c, alt.erow,
                            <<Tok("if", r, c), Field("condition", paren(c + 3)),
                              Field("consequence", cons),
                              Field("alternative", clause)>>, <<>>)
      [] s.k = "while" ->
            LET body == Parse(s.sub[1], e + 1, c + 4)
            IN Node("while_statement", r, c, body.erow,
                    <<Tok("while", r, c), Field("condition", paren(c + 6)),
                      Field("body", body)>>, <<>>)
      [] s.k = "do" ->
            LET body == Parse(s.sub[1], r + 1, c + 4)
                w == body.erow + 1
                cond == Node("parenthesized_expression", w, c + 6, w + s.n - 1,
                             <<>>, <<>>)
            IN Node("do_statement", r, c, cond.erow,
                    <<Tok("do", r, c), Field("body", body), Tok("while", w, c),
                      Field("condition", cond),
                      Tok(";", cond.erow, c + 9)>>, <<>>)
      [] s.k = "for" ->
            LET body == Parse(s.sub[1], e + 1, c + 4)
            IN Node("for_statement", r, c, body.erow,
                    <<Tok("for", r, c), Tok("(", r, c + 4),
                      Field("initializer", Tok("assignment_expression", r, c + 5)),
                      Tok(";", r, c + 10),
                      Field("condition", Tok("binary_expression", e, c + 12)),
                      Tok(";", e, c + 17),
                      Field("update", Tok("update_expression", e, c + 19)),
                      Tok(")", e, c + 22),
                      Field("body", body)>>, <<>>)
      [] s.k = "switch" ->
            LET body == Parse(s.sub[1], e + 1, c)
            IN Node("switch_statement", r, c, body.erow,
                    <<Tok("switch", r, c), Field("condition", paren(c + 7)),
                      Field("body", body)>>, <<>>)
      [] s.k = "case" ->
            LET sts == ParseSeq(s.sub, r + 1, c + 4)
            IN Node("case_statement", r, c, NextRow(sts, r + 1) - 1,
                    <<Tok("case", r, c),
                      Field("value", Tok("number_literal", r, c + 5)),
                      Tok(":", r, c + 6)>> \o sts, <<>>)
      [] s.k = "default" ->
            LET sts == ParseSeq(s.sub, r + 1, c + 4)
            IN Node("case_statement", r, c, NextRow(sts, r + 1) - 1,
                    <<Tok("default", r, c), Tok(":", r, c + 7)>> \o sts, <<>>)
      [] s.k = "ifdef" ->
            LET sts == ParseSeq(s.sub, r + 1, c)
                close == NextRow(sts, r + 1)
            IN Node("preproc_ifdef", r, 0, close,
                    <<Tok("#ifdef", r, 0),
                      Field("name", Node("identifier", r, 7, r, <<>>, s.name))>>
                        \o sts \o <<Tok("#endif", close, 0)>>, <<>>)
      [] s.k = "static" -> WithStatic(Parse(s.sub[1], r, c))
      [] s.k = "commented" -> WithComment(Parse(s.sub[1], r, c))
      [] s.k = "ifndef" ->
            LET sts == ParseSeq(s.sub, r + 1, c)
                close == NextRow(sts, r + 1)
            IN Node("preproc_ifdef", r, 0, close,
                    <<Tok("#ifndef", r, 0),
                      Field("name", Node("identifier", r, 8, r, <<>>, s.name))>>
                        \o sts \o <<Tok("#endif", close, 0)>>, <<>>)
      [] s.k = "ifdefelse" ->
            LET sts == ParseSeq(SubSeq(s.sub, 1, s.n), r + 1, c)
                other == NextRow(sts, r + 1)
                alts == ParseSeq(SubSeq(s.sub, s.n + 1, Len(s.sub)), other + 1, c)
                close == NextRow(alts, other + 1)
            IN Node("preproc_ifdef", r, 0, close,
                    <<Tok("#ifdef", r, 0),
                      Field("name", Node("identifier", r, 7, r, <<>>, s.name))>>
                        \o sts
                        \o <<Field("alternative",
                                 Node("preproc_else", other, 0, close - 1,
                                      <<Tok("#else", other, 0)>> \o alts, <<>>)),
                             Tok("#endif", close, 0)>>, <<>>)

(***************************************************************************)
(* Top-level items of a file, and the tree of a whole file.                *)
(*   comment   n rows of comment                                           *)
(*   global    int <name>;  (n = 0)  /  int <name> = e;  (n rows)          *)
(*   proto     int f(void);                                                *)
(*   define    #define <name> 1                                            *)
(*   include   #include "<name>"  (n = 1)  /  #include <<name>>  (n = 0)   *)
(*   function  int f(<params>) <body>, after n blank rows (n = -1: on the  *)
(*             last row of the item before it, 8 columns in); name holds   *)
(*             the parameter names                                         *)
(*   static    static <global or function>                                 *)
(***************************************************************************)
Comment == S("comment", 1, <<>>, <<>>)
Global(n, id) == S("global", n, <<>>, id)
Proto == S("proto", 0, <<>>, <<>>)
Define(id) == S("define", 0, <<>>, id)
Include(quoted, path) == S("include", IF quoted THEN 1 ELSE 0, <<>>, path)
Function(gap, params, body) == S("function", gap, <<body>>, params)

RECURSIVE ParamNodes(_, _, _)
\* int <p1>, int <p2>, ... from column c of row r
ParamNodes(params, r, c) ==
    IF params = <<>> THEN <<>>
    ELSE LET p == Head(params)
         IN <<Node("parameter_declaration", r, c, r,
                   <<Field("type", Tok("primitive_type", r, c)),
                     Field("declarator",
                           Node("identifier", r, c + 4, r, <<>>, p))>>, <<>>)>>
                \o ParamNodes(Tail(params), r, c + 6 + Len(p))

RECURSIVE ParseItem(_, _)
ParseItem(it, r) ==
    CASE it.k = "static" -> WithStatic(ParseItem(it.sub[1], r))
      [] it.k = "comment" -> Node("comment", r, 0, r + it.n - 1, <<>>, <<>>)
      [] it.k = "global" -> Parse(S("decl", it.n, <<>>, it.name), r, 0)
      [] it.k = "proto" ->
            Node("declaration", r, 0, r,
                 <<Field("type", Tok("primitive_type", r, 0)),
                   Field("declarator", Tok("function_declarator", r, 4)),
                   Tok(";", r, 11)>>, <<>>)
      [] it.k = "define" ->
            Node("preproc_def", r, 0, r,
                 <<Tok("#define", r, 0),
                   Field("name", Node("identifier", r, 8, r, <<>>, it.name)),
                   Field("value", Tok("preproc_arg", r, 9 + Len(it.name)))>>, <<>>)
      [] it.k = "include" ->
            Node("preproc_include", r, 0, r,
                 <<Tok("#include", r, 0),
                   Field("path",
                       Node(IF it.n = 1 THEN "string_literal"
                                        ELSE "system_lib_string",
                            r, 9, r, <<>>, it.name))>>, <<>>)
      [] it.k = "function" ->
            LET fr == r + it.n
                body == Parse(it.sub[1], fr + 1, 0)
                params == ParamNodes(it.name, fr, 6)
                def ==
                  Node("function_definition", fr, 0, body.erow,
                    <<Field("type", Tok("primitive_type", fr, 0)),
                      Field("declarator",
                          Node("function_declarator", fr, 4, fr,
                               <<Field("declarator", Tok("identifier", fr, 4)),
                                 Field("parameters",
                                     Node("parameter_list", fr, 5, fr,
                                          <<Tok("(", fr, 5)>> \o params
                                              \o <<Tok(")", fr, 6)>>,
                                          <<>>))>>, <<>>)),
                      Field("body", body)>>, <<>>)
            IN IF it.n < 0 THEN ShiftRow(def, fr, 8) ELSE def

RECURSIVE ParseItems(_, _)
ParseItems(items, r) ==
    IF items = <<>> THEN <<>>
    ELSE LET h == ParseItem(Head(items), r)
         IN <<h>> \o ParseItems(Tail(items), h.erow + 1)

\* parser.parse(source, None).unwrap().root_node()
ParseFile(text) ==
    LET kids == ParseItems(text, 0)
    IN Node("translation_unit", 0, 0, NextRow(kids, 0), kids, <<>>)

(***************************************************************************)
(* tree-sitter's Node API on these trees.                                  *)
(***************************************************************************)
NoNode == Node("none", 0, 0, 0, <<>>, <<>>)

\* node.child(i), 0-based as in the source
child(node, i) == node.kids[i + 1]

child_count(node) == Len(node.kids)

\* node.child_by_field_name(field): the first child that fills the field,
\* None (NoNode) if there is none
child_by_field_name(node, field) ==
    IF \E i \in 1 .. Len(node.kids) : node.kids[i].field = field
    THEN node.kids[CHOOSE i \in 1 .. Len(node.kids) :
                        /\ node.kids[i].field = field
                        /\ \A j \in 1 .. i - 1 : node.kids[j].field # field]
    ELSE NoNode

(***************************************************************************)
(* The complexity counter.  A call returns the score and the contributions *)
(* it appended to the sub-finding list, in order.                          *)
(***************************************************************************)
Counted(n, q) == [linecount |-> n, sublints |-> q]

Zero == Counted(0, <<>>)

\* linecount += <callee's score>, the callee having appended its contributions
Plus(a, b) == Counted(a.linecount + b.linecount, a.sublints \o b.sublints)

\* A contribution: the Lint pushed on sublints.  Its message carries the
\* line value ("Counted <what> for <value> line(s)"), its range is that of
\* node `at`.
Contribution(what, value, at) ==
    [message |-> what, value |-> value, row |-> at.srow, col |-> at.scol]

\* linecount += value; sublints.push(Lint { .. })
Record(what, value, at) == Counted(value, <<Contribution(what, value, at)>>)

\* range.end_point.row - range.start_point.row + 1
Rows(node) == node.erow - node.srow + 1

RECURSIVE count_lines_statement(_)
RECURSIVE CountEach(_)

\* for node in <children> { linecount += count_lines_statement(.., node, ..) }
CountEach(nodes) ==
    IF nodes = <<>> THEN Zero
    ELSE Plus(count_lines_statement(Head(nodes)), CountEach(Tail(nodes)))

count_lines_compound_statement(node) == CountEach(node.kids)

count_lines_if_statement(node) ==
    LET condition == child_by_field_name(node, "condition")
        consequence == child_by_field_name(node, "consequence")
        alt == child_by_field_name(node, "alternative")
        head == Plus(Record("Counted if condition", Rows(condition), condition),
                     count_lines_statement(consequence))
    IN IF alt # NoNode THEN Plus(head, count_lines_statement(alt)) ELSE head

\* "declaration" arm
count_declaration(node) ==
    LET d == child_by_field_name(node, "declarator")
    IN IF d # NoNode /\ d.kind = "init_declarator"
       THEN Record("Counted definition", Rows(d), d)
       ELSE Zero

ifdef_ignores_guard(node) == CountEach(SubSeq(node.kids, 3, Len(node.kids)))

\* "preproc_ifdef" arm
count_preproc_ifdef(node) ==
    LET name == child_by_field_name(node, "name")
    IN IF name.text # DEBUG
       THEN CountEach(SubSeq(node.kids, 3, Len(node.kids)))
       ELSE Zero

\* "while_statement" arm
count_while(node) ==
    LET condition == child_by_field_name(node, "condition")
    IN Plus(Record("Counted while condition", Rows(condition), condition),
            count_lines_statement(child_by_field_name(node, "body")))

\* "do_statement" arm
count_do(node) ==
    LET condition == child_by_field_name(node, "condition")
    IN Plus(count_lines_statement(child_by_field_name(node, "body")),
            Record("Counted do/while condition", Rows(condition), condition))

\* "for_statement" arm
count_for(node) ==
    LET num_children == child_count(node)
        first_node == child(node, 0)
        penultimate_node == child(node, num_children - 2)
        body == child(node, num_children - 1)
        value == penultimate_node.erow - first_node.srow + 1
    IN Plus(Record("Counted for condition", value, first_node),
            count_lines_statement(body))

\* "switch_statement" arm
count_switch(node) ==
    LET condition == child_by_field_name(node, "condition")
    IN Plus(Record("Counted switch expression", Rows(condition), condition),
            count_lines_statement(child_by_field_name(node, "body")))

\* "expression_statement" arm
count_expression(node) ==
    LET expression == child(node, 0)
    IN Record("Counted expression", Rows(expression), expression)

\* "case_statement" arm
count_case(node) ==
    LET expression == child(node, child_count(node) - 1)
        counted_node == IF expression.kind = "compound_statement"
                        THEN expression ELSE node
    IN CountEach(SelectSeq(counted_node.kids,
                           LAMBDA n : n.kind # "break_statement"))

break_unrecorded(node) == Counted(1, <<>>)

\* "break_statement" arm
count_break(node) == Record("Counted break statement", 1, node)

\* "continue_statement" arm
count_continue(node) == Record("Counted continue statement", 1, node)

\* "else_clause" arm
count_else_clause(node) == count_lines_statement(child(node, 1))

\* "return_statement" arm
count_return(node) == Record("Counted return statement", 1, child(node, 1))

unrecognised_descends(node) == CountEach(node.kids)

\* the "_ => {}" arm
count_unrecognised(node) == Zero

count_lines_statement(node) ==
    CASE node.kind = "declaration" -> count_declaration(node)
      [] node.kind = "if_statement" -> count_lines_if_statement(node)
      [] node.kind = "preproc_ifdef" -> count_preproc_ifdef(node)
      [] node.kind = "while_statement" -> count_while(node)
      [] node.kind = "do_statement" -> count_do(node)
      [] node.kind = "for_statement" -> count_for(node)
      [] node.kind = "switch_statement" -> count_switch(node)
      [] node.kind = "expression_statement" -> count_expression(node)
      [] node.kind = "case_statement" -> count_case(node)
      [] node.kind = "break_statement" -> count_break(node)
      [] node.kind = "continue_statement" -> count_continue(node)
      [] node.kind = "else_clause" -> count_else_clause(node)
      [] node.kind = "return_statement" -> count_return(node)
      [] node.kind = "compound_statement" -> count_lines_compound_statement(node)
      [] OTHER -> count_unrecognised(node)

(***************************************************************************)
(* The statements the counter is studied on.                               *)
(***************************************************************************)
Spans == 1 .. MaxSpan

Leaves ==
    {Decl(n) : n \in 0 .. MaxSpan} \cup {Expr(n) : n \in Spans}
        \cup {Return(0), Return(1), Empty, Break, Continue, Goto}

Tiny == {Expr(1), Break}

TinySeqs == SeqsUpTo(Tiny, MaxStmts)

Inner == Tiny \cup {Block(q) : q \in TinySeqs}

Ifs ==
    {If(n, c) : n \in Spans, c \in Inner}
        \cup {IfElse(n, c, a) : n \in Spans, c \in Inner, a \in Inner}
        \cup {IfElse(1, Expr(1), If(n, Break)) : n \in Spans}

Loops ==
    {While(n, b) : n \in Spans, b \in Inner}
        \cup {Do(n, b) : n \in Spans, b \in Inner}
        \cup {For(n, b) : n \in Spans, b \in Inner}

Labels == {Label(s) : s \in Inner \cup {While(1, Expr(1)), Goto}}

Guards == {DEBUG, TRACE}

GuardedItems ==
    Tiny \cup {Decl(1), While(2, Block(<<Expr(1)>>)),
               Ifdef(DEBUG, <<Expr(1)>>), Ifdef(TRACE, <<Expr(1)>>)}

Ifdefs ==
    {Ifdef(m, q) : m \in Guards, q \in SeqsUpTo(GuardedItems, MaxStmts)}
        \cup {Ifndef(m, q) : m \in Guards, q \in TinySeqs}
        \cup {IfdefElse(m, q, a) : m \in Guards, q \in TinySeqs, a \in TinySeqs}

\* function bodies with a conditional-compilation block among their
\* statements
GuardedBodies ==
    {Block(<<Expr(1), i, Return(1)>>) :
        i \in {Ifdef(m, q) : m \in Guards, q \in TinySeqs}
                \cup {Ifndef(TRACE, <<Expr(1)>>),
                      IfdefElse(TRACE, <<Expr(1)>>, <<Expr(1), Break>>)}}

CaseItems ==
    Tiny \cup {Block(<<Expr(1)>>), Block(<<Expr(1), Break>>),
               If(1, Break), While(1, Expr(1))}

Cases ==
    {Case(q) : q \in SeqsUpTo(CaseItems, MaxCaseStmts)}
        \cup {Default(q) : q \in SeqsUpTo(CaseItems, MaxCaseStmts)}

Switches ==
    {Switch(n, Block(<<Case(q), Default(<<Expr(1), Break>>)>>)) :
        n \in Spans, q \in TinySeqs}

Nested ==
    {Block(<<While(1, Block(<<IfElse(2, Block(<<Expr(1), Continue>>), Break),
                              Decl(1)>>)),
             Return(1)>>),
     Block(<<Switch(1, Block(<<Case(<<For(2, Block(<<Expr(2)>>)), Break>>),
                               Default(<<Break>>)>>)),
             Ifdef(TRACE, <<Do(1, Block(<<Expr(1)>>))>>),
             Ifdef(DEBUG, <<Expr(1)>>)>>)}

Bodies ==
    {Block(q) : q \in SeqsUpTo(Leaves, MaxStmts)} \cup Nested \cup GuardedBodies

\* statements with a child that fills no field before the children that do:
\* a storage class before the declarator, a comment before the body
Unfielded ==
    {Static(Decl(n)) : n \in 0 .. MaxSpan}
        \cup {Commented(While(n, b)) : n \in Spans, b \in Inner}
        \cup {Commented(If(n, c)) : n \in Spans, c \in Inner}
        \cup {Commented(IfElse(n, Expr(1), a)) : n \in Spans, a \in Inner}
        \cup {Commented(Switch(1, Block(<<Case(<<Expr(1), Break>>)>>))),
              Block(<<Static(Decl(1)), Commented(While(1, Expr(1)))>>)}

CountInputs ==
    Leaves \cup Ifs \cup Loops \cup Labels \cup Ifdefs \cup Cases
        \cup Switches \cup Bodies \cup Unfielded

(***************************************************************************)
(* SpecCount: the counter applied to one statement or function body.       *)
(***************************************************************************)
Idle ==
    /\ args = <<>>
    /\ fs = <<>>
    /\ gone = {}
    /\ files = <<>>
    /\ idx = 0
    /\ identifiers = <<>>
    /\ lints = <<>>
    /\ counted = <<>>
    /\ printed = <<>>
    /\ fileset = {}
    /\ overflow_checks \in BOOLEAN

InitCount ==
    /\ pc = "start"
    /\ source \in CountInputs
    /\ linecount = 0
    /\ sublints = <<>>
    /\ Idle

mainVars == <<args, fs, gone, files, idx, identifiers, lints, counted, printed,
              fileset>>

\* the call returned r: its score, and its contributions appended
CountEnded(r) ==
    /\ linecount' = r.linecount
    /\ sublints' = sublints \o r.sublints

\* count_lines_statement(file, source, node, &mut sublints)
CountStatement ==
    /\ pc = "start"
    /\ CountEnded(count_lines_statement(Parse(source, 0, 0)))
    /\ pc' = "counted"
    /\ UNCHANGED <<overflow_checks, source, mainVars>>

\* count_lines_compound_statement(file, source, body_node, &mut sublints)
CountBody ==
    /\ pc = "start"
    /\ source.k = "block"
    /\ CountEnded(count_lines_compound_statement(Parse(source, 0, 0)))
    /\ pc' = "counted"
    /\ UNCHANGED <<overflow_checks, source, mainVars>>

NextCount == CountStatement \/ CountBody

SpecCount == InitCount /\ [][NextCount]_vars

RECURSIVE SumValues(_)
SumValues(q) == IF q = <<>> THEN 0 ELSE Head(q).value + SumValues(Tail(q))

\* C1: the score a call of the counter returns equals the sum of the line
\* values of the contributions it appended during that call.
Additivity == pc = "counted" => linecount = SumValues(sublints)

\* C1 witness: a nested body was counted, with several contributions, one of
\* them worth more than one line.
AdditivityWitness ==
    /\ pc = "counted"
    /\ source \in Nested
    /\ Len(sublints) >= 4
    /\ linecount > Len(sublints)

\* the case/default block s without its trailing break
WithoutTrailingBreak(s) == [s EXCEPT !.sub = Front(s.sub)]

EndsInBreak(s) ==
    /\ s.k \in {"case", "default"}
    /\ s.sub # <<>>
    /\ Last(s.sub) = Break

\* C4: a case/default block whose last statement is break scores as (and
\* has the contributions of) the same block with that break removed.
BreakExclusion ==
    (pc = "counted" /\ EndsInBreak(source)) =>
        LET r == count_lines_statement(Parse(WithoutTrailingBreak(source), 0, 0))
        IN linecount = r.linecount /\ sublints = r.sublints

UnrecognisedKinds == {"goto", "label"}

\* C6 as stated: a statement of any kind outside the recognised
\* contributors, an expression statement included, costs 0 and records
\* nothing.
OtherKindsCostNothing ==
    (pc = "counted" /\ source.k \in UnrecognisedKinds \cup {"expr", "empty"}) =>
        (linecount = 0 /\ sublints = <<>>)

\* C6 amended: goto and labeled statements cost 0 and record nothing; an
\* expression statement costs the rows its expression spans (the empty
\* statement 1) and records exactly one "Counted expression" contribution.
OtherKindsExceptExpression ==
    /\ (pc = "counted" /\ source.k \in UnrecognisedKinds) =>
            (linecount = 0 /\ sublints = <<>>)
    /\ (pc = "counted" /\ source.k \in {"expr", "empty"}) =>
            /\ linecount = (IF source.k = "expr" THEN source.n ELSE 1)
            /\ Len(sublints) = 1
            /\ sublints[1].message = "Counted expression"
            /\ sublints[1].value = linecount

\* C6 witness: a labeled loop was counted for nothing.
OtherKindsWitness ==
    /\ pc = "counted"
    /\ source = Label(While(1, Expr(1)))
    /\ linecount = 0

GuardedKinds == {"ifdef", "ifndef", "ifdefelse"}

\* the statements of a conditional-compilation block's body: those between
\* the directive and its #else or #endif
GuardedStatements(s) ==
    IF s.k = "ifdefelse" THEN SubSeq(s.sub, 1, s.n) ELSE s.sub

RECURSIVE Unguarded(_)
\* the statement list with every DEBUG-guarded block removed and every other
\* guarded block replaced by the statements of its body
Unguarded(q) ==
    IF q = <<>> THEN <<>>
    ELSE IF Head(q).k \in GuardedKinds
    THEN (IF Head(q).name = DEBUG THEN <<>>
          ELSE Unguarded(GuardedStatements(Head(q))))
            \o Unguarded(Tail(q))
    ELSE <<Head(q)>> \o Unguarded(Tail(q))

\* what the contributions say, without where they are
Told(q) == [i \in 1 .. Len(q) |-> <<q[i].message, q[i].value>>]

\* C12: a conditional-compilation block guarded by DEBUG scores 0 and
\* records nothing; one guarded by another macro scores, and records, exactly
\* what the statements of its body score and record one after the other; and
\* a function body holding such blocks scores what it would with the DEBUG
\* blocks removed and the other blocks' statements written directly in it.
GuardedBlocks ==
    /\ (pc = "counted" /\ source.k \in GuardedKinds /\ source.name = DEBUG) =>
            (linecount = 0 /\ sublints = <<>>)
    /\ (pc = "counted" /\ source.k \in GuardedKinds /\ source.name # DEBUG) =>
            /\ linecount =
                 CountEach(ParseSeq(GuardedStatements(source), 1, 0)).linecount
            /\ sublints =
                 CountEach(ParseSeq(GuardedStatements(source), 1, 0)).sublints
    /\ (pc = "counted" /\ source \in GuardedBodies) =>
            /\ linecount =
                 count_lines_compound_statement(
                     Parse(Block(Unguarded(source.sub)), 0, 0)).linecount
            /\ Told(sublints) =
                 Told(count_lines_compound_statement(
                          Parse(Block(Unguarded(source.sub)), 0, 0)).sublints)

\* C12 witness: a TRACE block holding a DEBUG block and a loop with a
\* two-row condition was counted: 3 for the loop (two contributions), nothing
\* for the DEBUG block.
GuardedBlocksWitness ==
    /\ pc = "counted"
    /\ source = Ifdef(TRACE, <<Ifdef(DEBUG, <<Expr(1)>>),
                               While(2, Block(<<Expr(1)>>))>>)
    /\ linecount = 3
    /\ Len(sublints) = 2

(***************************************************************************)
(* lint: the per-file checks (global variables, comment above a function,  *)
(* function length).                                                       *)
(***************************************************************************)
LineLimit == 10

TooLong == "Function has more than 10 lines"

\* A Lint: message, the number formatted into it (0 if none), file, the
\* start point of its range, and its sublints (<<>> for None).
Lint(message, value, file, at, subs) ==
    [message |-> message, value |-> value, file |-> file,
     row |-> at.srow, col |-> at.scol, sublints |-> subs]

\* node.prev_sibling() of the i-th child of the root
prev_sibling(kids, i) == IF i > 1 THEN kids[i - 1] ELSE NoNode

over_limit_inclusive(count) == count >= LineLimit

\* if linecount > 10
over_limit(count) == count > LineLimit

\* the "top level declarations are global variables" check
lint_global(file, node) ==
    LET declarator == child_by_field_name(node, "declarator")
    IN IF declarator.kind = "init_declarator" \/ declarator.kind = "identifier"
       THEN <<Lint("Global variable", 0, file, node, <<>>)>>
       ELSE <<>>

\* node.range().start_point.row - 1 is evaluated (&& short-circuits) on row
\* 0: usize 0 - 1
subtracts_from_zero(node, prev) == prev.kind = "comment" /\ node.srow = 0

\* the "function declarations must have comments above them" check, given
\* the previous sibling.  Where 0 - 1 does not panic it wraps to usize::MAX,
\* which is no row.
lint_comment(file, node, prev) ==
    IF ~(prev.kind = "comment" /\ node.srow > 0 /\ node.srow - 1 = prev.erow)
    THEN <<Lint("Missing comment directly above function", 0, file,
                child_by_field_name(node, "declarator"), <<>>)>>
    ELSE <<>>

\* if linecount > 10 { lints.push(..) }, r being the body's count
length_finding(file, node, r) ==
    IF over_limit(r.linecount)
    THEN <<Lint(TooLong, r.linecount, file,
                child_by_field_name(node, "declarator"), r.sublints)>>
    ELSE <<>>

\* the function-length check
lint_length(file, node) ==
    length_finding(file, node,
        count_lines_compound_statement(child_by_field_name(node, "body")))

\* One iteration of lint's loop over the root's children: the lints pushed,
\* or a panic: prev_sibling().expect(..) on a function that is the first
\* child, or, in a build with overflow checks, row 0 - 1.
lint_node(file, kids, i, checks) ==
    LET node == kids[i]
    IN CASE node.kind = "declaration" ->
                [panic |-> FALSE, lints |-> lint_global(file, node)]
         [] node.kind = "function_definition" ->
                IF prev_sibling(kids, i) = NoNode
                THEN [panic |-> TRUE, lints |-> <<>>]
                ELSE IF checks /\ subtracts_from_zero(node, prev_sibling(kids, i))
                THEN [panic |-> TRUE, lints |-> <<>>]
                ELSE [panic |-> FALSE,
                      lints |-> lint_comment(file, node, prev_sibling(kids, i))
                                    \o lint_length(file, node)]
         [] OTHER -> [panic |-> FALSE, lints |-> <<>>]

RECURSIVE lint_from(_, _, _, _, _)
RECURSIVE lint_next(_, _, _, _, _, _)

\* the loop of lint over the root's children from the i-th on
lint_from(file, kids, i, acc, checks) ==
    IF i > Len(kids) THEN [panic |-> FALSE, lints |-> acc]
    ELSE lint_next(file, kids, i, acc, checks, lint_node(file, kids, i, checks))

\* the loop goes on after an iteration that ended as r
lint_next(file, kids, i, acc, checks, r) ==
    IF r.panic THEN [panic |-> TRUE, lints |-> acc]
    ELSE lint_from(file, kids, i + 1, acc \o r.lints, checks)

\* lint(file, source, &mut lints) in a build with (checks) or without
\* overflow checks: the lints appended, or a panic
lint(file, text, checks) ==
    lint_from(file, ParseFile(text).kids, 1, <<>>, checks)

(***************************************************************************)
(* SpecLint: lint applied to one file.                                     *)
(***************************************************************************)
MaxBody == 12     \* statements in a function body
MaxItems == 3     \* top-level items in a file

RECURSIVE Rep(_, _)
Rep(x, n) == IF n = 0 THEN <<>> ELSE <<x>> \o Rep(x, n - 1)

\* bodies scoring 0 and LineLimit - 1 .. MaxBody, and nested ones scoring
\* LineLimit and LineLimit + 1
LintBodies ==
    {Block(Rep(Expr(1), n)) : n \in {0} \cup (LineLimit - 1) .. MaxBody}
        \cup {Block(<<While(2, Block(Rep(Expr(1), LineLimit - 4))), Decl(1),
                      Return(1)>>),
              Block(<<While(2, Block(Rep(Expr(1), LineLimit - 3))), Decl(1),
                      Return(1)>>)}

LintItems ==
    {Comment, Global(1, xName), Proto, Static(Global(0, xName))}
        \cup {Function(0, <<>>, b) : b \in LintBodies}
        \cup {Function(1, <<>>, Block(Rep(Expr(1), LineLimit + 1))),
              Function(-1, <<>>, Block(Rep(Expr(1), LineLimit + 1))),
              Static(Function(0, <<>>, Block(Rep(Expr(1), LineLimit + 1))))}

\* a function written on the row of the item before it has one before it
LintInputs ==
    {q \in SeqsUpTo(LintItems, MaxItems) :
        q # <<>> => ~(Head(q).k = "function" /\ Head(q).n < 0)}

aPath == <<"a.c">>

InitLint ==
    /\ pc = "start"
    /\ source \in LintInputs
    /\ linecount = 0
    /\ sublints = <<>>
    /\ Idle

LintEnded(r) ==
    /\ pc' = IF r.panic THEN "panicked" ELSE "linted"
    /\ lints' = lints \o r.lints

\* lint(file, &source, &mut lints)
LintSource ==
    /\ pc = "start"
    /\ LintEnded(lint(aPath, source, overflow_checks))
    /\ UNCHANGED <<overflow_checks, source, linecount, sublints, args, fs, gone, files, idx,
                   identifiers, counted, printed, fileset>>

NextLint == LintSource

SpecLint == InitLint /\ [][NextLint]_vars

\* the positions in lints of the length findings placed at node d
LengthFindingsAt(d) ==
    {j \in 1 .. Len(lints) :
        /\ lints[j].message = TooLong
        /\ lints[j].row = d.srow
        /\ lints[j].col = d.scol}

\* C5: once a file is linted, each of its top-level function definitions has
\* exactly one "more than 10 lines" finding if its score exceeds 10 and none
\* otherwise; the finding sits at the declarator, carries the score and has
\* the contributions of that body as its sub-findings; and no such finding
\* exists elsewhere.
Threshold ==
    pc = "linted" =>
        LET kids == ParseFile(source).kids
            funs == {i \in 1 .. Len(kids) : kids[i].kind = "function_definition"}
            decl(i) == child_by_field_name(kids[i], "declarator")
            score(i) == count_lines_compound_statement(
                            child_by_field_name(kids[i], "body"))
        IN /\ \A i \in funs :
                /\ Cardinality(LengthFindingsAt(decl(i)))
                        = (IF score(i).linecount > 10 THEN 1 ELSE 0)
                /\ \A j \in LengthFindingsAt(decl(i)) :
                        /\ lints[j].value = score(i).linecount
                        /\ lints[j].sublints = score(i).sublints
                        /\ SumValues(lints[j].sublints) = lints[j].value
           /\ \A j \in 1 .. Len(lints) :
                lints[j].message = TooLong =>
                    \E i \in funs : j \in LengthFindingsAt(decl(i))

\* C5 witness: a file with a 10-statement function and an 11-statement
\* function was linted; only the second has a length finding, with 11.
ThresholdWitness ==
    /\ pc = "linted"
    /\ source = <<Comment, Function(0, <<>>, Block(Rep(Expr(1), 10))),
                  Function(0, <<>>, Block(Rep(Expr(1), 11)))>>
    /\ Cardinality({j \in 1 .. Len(lints) : lints[j].message = TooLong}) = 1
    /\ \E j \in 1 .. Len(lints) :
            /\ lints[j].message = TooLong
            /\ lints[j].value = 11
            /\ Len(lints[j].sublints) = 11
            /\ lints[j].row = 14

\* the positions in lints of the missing-comment findings placed at node d
CommentFindingsAt(d) ==
    {j \in 1 .. Len(lints) :
        /\ lints[j].message = "Missing comment directly above function"
        /\ lints[j].row = d.srow
        /\ lints[j].col = d.scol}

\* the i-th top-level item is preceded by a comment that ends on the row
\* directly above it
CommentDirectlyAbove(kids, i) ==
    /\ i > 1
    /\ kids[i - 1].kind = "comment"
    /\ kids[i - 1].erow = kids[i].srow - 1

\* the comment findings of a linted file are those of its functions that
\* have no comment directly above them, one each
CommentFindingsRight ==
    LET kids == ParseFile(source).kids
        funs == {i \in 1 .. Len(kids) : kids[i].kind = "function_definition"}
    IN \A i \in funs :
            Cardinality(CommentFindingsAt(
                            child_by_field_name(kids[i], "declarator")))
                = (IF CommentDirectlyAbove(kids, i) THEN 0 ELSE 1)

\* C11: the comment check completes on every file, wherever its functions
\* stand (the call of lint never panics), and once the file is linted every
\* top-level function has exactly one "Missing comment directly above
\* function" finding if no comment ends on the row directly above it, and
\* none if one does.
CommentCheckCompletes ==
    /\ pc # "panicked"
    /\ pc = "linted" => CommentFindingsRight

(***************************************************************************)
(* discover_files: the files reachable through quoted #include lines.      *)
(* A path is its sequence of components; fs maps the readable paths to     *)
(* their text.                                                             *)
(***************************************************************************)
\* fs::read_to_string(path) succeeds
Readable(path) == path \in DOMAIN fs /\ path \notin gone

\* path.parent().unwrap()
parent(path) == Front(path)

\* parent.join(include_path), include_path relative
join(dir, include_path) == dir \o include_path

Ended(how, set) == [end |-> how, set |-> set]

RECURSIVE discover_files(_, _)
RECURSIVE discover_from(_, _, _, _, _)
RECURSIVE discover_next(_, _, _, _, _, _)

\* The loop of discover_files over the root's children from the i-th on,
\* with the fileset accumulated so far; callers are the paths of the calls
\* of discover_files now on the stack, this one included.
discover_from(path, kids, i, set, callers) ==
    IF i > Len(kids) THEN Ended("returned", set)
    ELSE LET node == kids[i]
             path_node == child_by_field_name(node, "path")
             include_path == path_node.text
         IN IF /\ node.kind = "preproc_include"
               /\ path_node.kind = "string_literal"
               /\ include_path \notin set
            THEN discover_next(path, kids, i, set, callers,
                     discover_files(join(parent(path), include_path), callers))
            ELSE discover_from(path, kids, i + 1, set, callers)

\* fileset.extend(newfiles), the recursive call having ended as newfiles
discover_next(path, kids, i, set, callers, newfiles) ==
    IF newfiles.end # "returned" THEN newfiles
    ELSE discover_from(path, kids, i + 1, set \cup newfiles.set, callers)

\* discover_files(path) called from within the calls on the paths callers
\* ({} for a call from main): the set it returns, or the way the process
\* dies in it.  The function has no state but its arguments and the files,
\* so a call on a path that one of its callers is working on repeats that
\* caller's steps and calls itself again, without end: the recursion runs
\* until the stack overflows.  Any other chain of calls, however deep,
\* returns.
discover_files(path, callers) ==
    IF ~Readable(path) THEN Ended("read_error", {})
    ELSE IF path \in callers THEN Ended("stack_overflow", {})
    ELSE discover_from(path, ParseFile(fs[path]).kids, 1, {path},
                       callers \cup {path})

(***************************************************************************)
(* SpecDiscover: discover_files on the include graphs over three headers,  *)
(* kept in the working directory and in a directory d.                     *)
(***************************************************************************)
MaxIncludes == 2   \* #include lines in a file

Headers == {"a.h", "b.h", "c.h"}

IncludeLists == SeqsUpTo({<<h>> : h \in Headers}, MaxIncludes)

HeaderText(paths) == [i \in 1 .. Len(paths) |-> Include(TRUE, paths[i])]

\* the tree where header h includes g[h], in the working directory and in d
HeaderTree(g) ==
    [p \in {<<h>> : h \in Headers} \cup {<<"d", h>> : h \in Headers} |->
        HeaderText(g[Last(p)])]

InitDiscover ==
    /\ pc = "start"
    /\ \E g \in [Headers -> IncludeLists] : fs = HeaderTree(g)
    /\ \E p \in {<<"a.h">>, <<"d", "a.h">>} : args = <<p>>
    /\ gone \in {{}, {<<"c.h">>}}
    /\ source = <<>>
    /\ linecount = 0
    /\ sublints = <<>>
    /\ files = <<>>
    /\ idx = 0
    /\ identifiers = <<>>
    /\ lints = <<>>
    /\ counted = <<>>
    /\ printed = <<>>
    /\ fileset = {}
    /\ overflow_checks \in BOOLEAN

DiscoverEnded(r) ==
    /\ pc' = r.end
    /\ fileset' = r.set

\* discover_files(path)
Discover ==
    /\ pc = "start"
    /\ DiscoverEnded(discover_files(args[1], {}))
    /\ UNCHANGED <<overflow_checks, source, linecount, sublints, args, fs, gone, files, idx,
                   identifiers, lints, counted, printed>>

NextDiscover == Discover

SpecDiscover == InitDiscover /\ [][NextDiscover]_vars

\* C3: include resolution ends on every include graph, cyclic ones
\* included: the recursion never runs until the stack overflows.
IncludeResolutionEnds == pc # "stack_overflow"

(***************************************************************************)
(* lint_identifiers: macro names and identifier styles.  An identifier's   *)
(* text is its sequence of characters.                                     *)
(***************************************************************************)
LowerChars ==
    {"a", "b", "c", "d", "e", "f", "g", "h", "i", "j", "k", "l", "m", "n", "o",
     "p", "q", "r", "s", "t", "u", "v", "w", "x", "y", "z"}

UpperChars ==
    {"A", "B", "C", "D", "E", "F", "G", "H", "I", "J", "K", "L", "M", "N", "O",
     "P", "Q", "R", "S", "T", "U", "V", "W", "X", "Y", "Z"}

DigitChars == {"0", "1", "2", "3", "4", "5", "6", "7", "8", "9"}

AllIn(text, chars) == \A i \in 1 .. Len(text) : text[i] \in chars

\* ^[A-Z0-9_]+$
screaming_snake_case_regex(text) ==
    Len(text) >= 1 /\ AllIn(text, UpperChars \cup DigitChars \cup {"_"})

\* ^[a-z0-9_]+_[a-z0-9_]+$
lower_snake_case_regex(text) ==
    /\ AllIn(text, LowerChars \cup DigitChars \cup {"_"})
    /\ \E i \in 2 .. Len(text) - 1 : text[i] = "_"

\* ^[a-z]+(?:[A-Z][a-z0-9]*)+$
camel_case_regex(text) ==
    \E k \in 2 .. Len(text) :
        /\ AllIn(SubSeq(text, 1, k - 1), LowerChars)
        /\ text[k] \in UpperChars
        /\ AllIn(SubSeq(text, k + 1, Len(text)),
                 LowerChars \cup UpperChars \cup DigitChars)

OfKind(nodes, kind) == SelectSeq(nodes, LAMBDA n : n.kind = kind)

RECURSIVE Flatten(_)
Flatten(qq) == IF qq = <<>> THEN <<>> ELSE Head(qq) \o Flatten(Tail(qq))

\* the identifier children of each of the nodes
IdentifiersOf(nodes) ==
    Flatten([i \in 1 .. Len(nodes) |-> OfKind(nodes[i].kids, "identifier")])

\* what the query captures with node as the pattern's outer node
CapturedAt(node) ==
    CASE node.kind = "declaration" ->
            OfKind(node.kids, "identifier")
                \o IdentifiersOf(OfKind(node.kids, "init_declarator"))
      [] node.kind = "parameter_list" ->
            IdentifiersOf(OfKind(node.kids, "parameter_declaration"))
      [] node.kind \in {"preproc_def", "preproc_function_def"} -> <<node>>
      [] OTHER -> <<>>

RECURSIVE Captures(_)
\* the captures of the query's matches below node, in document order
Captures(node) ==
    CapturedAt(node)
        \o Flatten([i \in 1 .. Len(node.kids) |-> Captures(node.kids[i])])

Identifier(file, at, case) ==
    [file |-> file, row |-> at.srow, col |-> at.scol, case |-> case,
     text |-> at.text]

\* the body of the loop over the captures
classify(file, capture) ==
    IF capture.kind \in {"preproc_def", "preproc_function_def"}
    THEN LET identifier == child_by_field_name(capture, "name")
         IN [lints |-> IF ~screaming_snake_case_regex(identifier.text)
                       THEN <<Lint("Macro is not SCREAMING_SNAKE_CASE", 0, file,
                                   identifier, <<>>)>>
                       ELSE <<>>,
             identifiers |-> <<>>]
    ELSE IF lower_snake_case_regex(capture.text)
         THEN [lints |-> <<>>,
               identifiers |-> <<Identifier(file, capture, "LowerSnake")>>]
         ELSE IF camel_case_regex(capture.text)
              THEN [lints |-> <<>>,
                    identifiers |-> <<Identifier(file, capture, "Camel")>>]
              ELSE [lints |-> <<>>, identifiers |-> <<>>]

\* the loop over all captures
classify_all(file, caps) ==
    [lints |-> Flatten([i \in 1 .. Len(caps) |-> classify(file, caps[i]).lints]),
     identifiers |->
        Flatten([i \in 1 .. Len(caps) |-> classify(file, caps[i]).identifiers])]

\* lint_identifiers(file, source, &mut lints, &mut identifiers): what it
\* appends to each
lint_identifiers(file, text) == classify_all(file, Captures(ParseFile(text)))

(***************************************************************************)
(* Orderings and sorts used by main.                                       *)
(***************************************************************************)
\* the names used as path components, in byte order
NameOrder == <<"a.c", "a.h", "b.c", "b.h", "c.h", "d", "u.h">>

name_rank(name) == CHOOSE i \in 1 .. Len(NameOrder) : NameOrder[i] = name

RECURSIVE path_less(_, _)
\* Path's Ord: component by component
path_less(p, q) ==
    IF q = <<>> THEN FALSE
    ELSE IF p = <<>> THEN TRUE
    ELSE IF Head(p) # Head(q) THEN name_rank(Head(p)) < name_rank(Head(q))
    ELSE path_less(Tail(p), Tail(q))

\* x put into the sorted q after every path not greater than it: the step
\* of the stable files.sort()
insert_file(q, x) ==
    SelectSeq(q, LAMBDA y : ~path_less(x, y)) \o <<x>>
        \o SelectSeq(q, LAMBDA y : path_less(x, y))

RECURSIVE sort_files(_)
\* files.sort()
sort_files(q) ==
    IF q = <<>> THEN <<>>
    ELSE insert_file(sort_files(Front(q)), Last(q))

\* a.file.cmp(b.file).then(a.range.start_point.row.cmp(&b.range.start_point.row))
lint_less(a, b) ==
    path_less(a.file, b.file) \/ (a.file = b.file /\ a.row < b.row)

\* x put into the sorted q after every finding not greater than it: the
\* step of the stable lints.sort_by(..)
insert_lint(q, x) ==
    SelectSeq(q, LAMBDA y : ~lint_less(x, y)) \o <<x>>
        \o SelectSeq(q, LAMBDA y : lint_less(x, y))

RECURSIVE sort_lints(_)
\* lints.sort_by(..)
sort_lints(q) ==
    IF q = <<>> THEN <<>>
    ELSE insert_lint(sort_lints(Front(q)), Last(q))

RECURSIVE SetToSeq(_)
\* fileset.into_iter().collect::<Vec<PathBuf>>(): the order is the hash
\* set's; files.sort() makes it irrelevant
SetToSeq(set) ==
    IF set = {} THEN <<>>
    ELSE LET x == CHOOSE y \in set : TRUE
         IN <<x>> \o SetToSeq(set \ {x})

(***************************************************************************)
(* main.                                                                   *)
(***************************************************************************)
RECURSIVE collect_from(_, _, _)
RECURSIVE collect_next(_, _, _, _)

\* args.files.iter().map(..).flatten().collect(), from the i-th root on
collect_from(roots, i, acc) ==
    IF i > Len(roots) THEN Ended("returned", acc)
    ELSE collect_next(roots, i, acc, discover_files(roots[i], {}))

\* fileset.insert(path); fileset.into_iter().collect(), discover_files
\* having ended as r
collect_next(roots, i, acc, r) ==
    IF r.end # "returned" THEN Ended(r.end, acc)
    ELSE collect_from(roots, i + 1, acc \o SetToSeq(r.set \cup {roots[i]}))

SnakeMessage == "Snake case identifier contributes to case inconsistency"
CamelMessage == "Camel case identifier contributes to case inconsistency"

OfCase(ids, case) == SelectSeq(ids, LAMBDA i : i.case = case)

either_style(snake, camel) == Len(snake) > 0 \/ Len(camel) > 0

\* if snake_case_identifiers.len() > 0 && camel_case_identifiers.len() > 0
both_styles(snake, camel) == Len(snake) > 0 /\ Len(camel) > 0

ConsistencyLints(ids, message) ==
    [i \in 1 .. Len(ids) |->
        [message |-> message, value |-> 0, file |-> ids[i].file,
         row |-> ids[i].row, col |-> ids[i].col, sublints |-> <<>>]]

\* the project-wide case check: the lints it appends
consistency(ids) ==
    LET snake_case_identifiers == OfCase(ids, "LowerSnake")
        camel_case_identifiers == OfCase(ids, "Camel")
    IN IF both_styles(snake_case_identifiers, camel_case_identifiers)
       THEN ConsistencyLints(snake_case_identifiers, SnakeMessage)
                \o ConsistencyLints(camel_case_identifiers, CamelMessage)
       ELSE <<>>

may_print_early(p) == p \in {"lint", "print"}

\* the report is printed by the loop after the sort
may_print(p) == p = "print"

Died == {"read_error", "panicked", "stack_overflow"}

\* files.sort() and the start of the loop, or the death of the process
Collected(r) ==
    IF r.end = "returned"
    THEN pc' = "lint" /\ files' = sort_files(r.set) /\ idx' = 1
    ELSE pc' = r.end /\ UNCHANGED <<files, idx>>

\* lines 525-540: the file list of all roots, sorted
CollectFiles ==
    /\ pc = "collect"
    /\ Collected(collect_from(args, 1, <<>>))
    /\ UNCHANGED <<overflow_checks, source, linecount, sublints, args, fs, gone, identifiers,
                   lints, counted, printed, fileset>>

\* lint(file, &source, &mut lints) having ended as r and lint_identifiers
\* as ids on the text of file
Linted(file, text, r, ids) ==
    IF r.panic
    THEN /\ pc' = "panicked"
         /\ UNCHANGED <<idx, lints, identifiers, counted>>
    ELSE /\ pc' = "lint"
         /\ idx' = idx + 1
         /\ lints' = lints \o r.lints \o ids.lints
         /\ identifiers' = identifiers \o ids.identifiers
         /\ counted' = Append(counted, [file |-> file, text |-> text])

\* lines 541-545: one iteration of the loop over files
LintFile ==
    /\ pc = "lint"
    /\ idx <= Len(files)
    /\ IF ~Readable(files[idx])
       THEN /\ pc' = "read_error"
            /\ UNCHANGED <<idx, lints, identifiers, counted>>
       ELSE Linted(files[idx], fs[files[idx]],
                   lint(files[idx], fs[files[idx]], overflow_checks),
                   lint_identifiers(files[idx], fs[files[idx]]))
    /\ UNCHANGED <<overflow_checks, source, linecount, sublints, args, fs, gone, files, printed,
                   fileset>>

\* lines 547-588: the case-consistency lints, then the sort
Aggregate ==
    /\ pc = "lint"
    /\ idx > Len(files)
    /\ lints' = sort_lints(lints \o consistency(identifiers))
    /\ pc' = "print"
    /\ UNCHANGED <<overflow_checks, source, linecount, sublints, args, fs, gone, files, idx,
                   identifiers, counted, printed, fileset>>

\* lines 589-594: one finding (with its sub-findings) is printed
PrintLint ==
    /\ may_print(pc)
    /\ Len(printed) < Len(lints)
    /\ printed' = Append(printed, lints[Len(printed) + 1])
    /\ UNCHANGED <<pc, overflow_checks, source, linecount, sublints, args, fs, gone, files, idx,
                   identifiers, lints, counted, fileset>>

\* lines 596-598
Exit ==
    /\ pc = "print"
    /\ Len(printed) = Len(lints)
    /\ pc' = "done"
    /\ UNCHANGED <<overflow_checks, source, linecount, sublints, args, fs, gone, files, idx,
                   identifiers, lints, counted, printed, fileset>>

\* the environment: a file stops being readable while the linter runs
Vanish ==
    /\ pc \in {"collect", "lint"}
    /\ gone = {}
    /\ \E p \in DOMAIN fs : gone' = {p}
    /\ UNCHANGED <<pc, overflow_checks, source, linecount, sublints, args, fs, files, idx,
                   identifiers, lints, counted, printed, fileset>>

(***************************************************************************)
(* Spec: main on small projects of two sources and a header.               *)
(***************************************************************************)
MaxRoots == 2     \* CLI arguments

a_b == <<"a", "_", "b">>
g_h == <<"g", "_", "h">>
cD == <<"c", "D">>
eF == <<"e", "F">>
MAX == <<"M", "A", "X">>
myMacro == <<"m", "y", "M", "a", "c", "r", "o">>

aC == <<"a.c">>
bC == <<"b.c">>
uH == <<"u.h">>

IncludeU == Include(TRUE, uH)

\* a body that scores 11 as written and 12 once LOOP is expanded
MacroBody ==
    Block(Rep(Expr(1), 9)
            \o <<MacroUse(<<"L", "O", "O", "P">>,
                          <<While(1, Block(<<Expr(1)>>))>>),
                 Return(1)>>)

TextsA ==
    {<<IncludeU, Comment, Function(0, <<cD, a_b>>, Block(<<Return(1)>>))>>,
     <<IncludeU, Global(0, a_b), Global(1, g_h)>>,
     <<Function(0, <<>>, Block(<<Return(1)>>))>>,
     <<Comment, Function(1, <<eF>>, MacroBody)>>,
     <<Include(FALSE, <<"stdio.h">>), Include(TRUE, bC), Global(0, cD)>>}

TextsB ==
    {<<IncludeU, Global(0, eF)>>,
     <<Define(myMacro), Define(MAX), Global(1, xName)>>,
     <<Include(TRUE, aC), Comment,
       Function(0, <<>>, Block(<<Decl(1), S("decl", 1, <<>>, g_h)>>))>>}

TextsU == {<<>>, <<Global(0, g_h)>>, <<Proto, Global(0, eF)>>}

Init ==
    /\ pc = "collect"
    /\ args \in SeqsUpTo({aC, bC, uH}, MaxRoots)
    /\ \E a \in TextsA, b \in TextsB, u \in TextsU :
            fs = [p \in {aC, bC, uH} |->
                    IF p = aC THEN a ELSE IF p = bC THEN b ELSE u]
    /\ gone = {}
    /\ source = <<>>
    /\ linecount = 0
    /\ sublints = <<>>
    /\ files = <<>>
    /\ idx = 0
    /\ identifiers = <<>>
    /\ lints = <<>>
    /\ counted = <<>>
    /\ printed = <<>>
    /\ fileset = {}
    /\ overflow_checks \in BOOLEAN

Next == CollectFiles \/ LintFile \/ Aggregate \/ PrintLint \/ Exit \/ Vanish

Spec == Init /\ [][Next]_vars

(***************************************************************************)
(* The preprocessing pipeline of the specification (Preprocessor Bridge    *)
(* and Line-Marker Realigner): row N of the virtual text holds what row N  *)
(* of the file expands to, directive rows and included text left blank.    *)
(***************************************************************************)
Blank == S("blank", 1, <<>>, <<>>)

RECURSIVE expand(_)
\* the statement with every macro use replaced, on its row, by its expansion
expand(s) ==
    IF s.k = "macro" THEN S("expansion", 1, s.sub, s.name)
    ELSE [s EXCEPT !.sub = [i \in 1 .. Len(s.sub) |-> expand(s.sub[i])]]

\* realign(expand(text, false), name)
virtual_text(text) ==
    [i \in 1 .. Len(text) |->
        IF text[i].k \in {"include", "define"} THEN Blank ELSE expand(text[i])]

FunctionsOf(text) == SelectSeq(text, LAMBDA it : it.k = "function")

\* C2: the functions the complexity counter scores are those of the
\* realigned virtual text of the file: macro uses are scored expanded.
CounterScoresVirtualText ==
    \A k \in 1 .. Len(counted) :
        FunctionsOf(counted[k].text)
            = FunctionsOf(virtual_text(fs[counted[k].file]))

(***************************************************************************)
(* Claims about main.                                                      *)
(***************************************************************************)
Reporting == pc \in {"print", "done"}

ConsistencyFindings ==
    {j \in 1 .. Len(lints) : lints[j].message \in {SnakeMessage, CamelMessage}}

MessageOf(case) == IF case = "LowerSnake" THEN SnakeMessage ELSE CamelMessage

\* the classified identifiers equal to identifier id (one per lint pass over
\* its file)
SameIdentifier(id) == {i \in 1 .. Len(identifiers) : identifiers[i] = id}

\* the consistency findings for identifier id, labelled with its style
FindingsFor(id) ==
    {j \in ConsistencyFindings :
        /\ lints[j].file = id.file
        /\ lints[j].row = id.row
        /\ lints[j].col = id.col
        /\ lints[j].message = MessageOf(id.case)}

\* C7: in the report, if identifiers of both styles were classified, every
\* classified identifier has exactly one consistency finding, labelled with
\* its own style, and there are no other consistency findings; if only one
\* style (or none) was classified there is no consistency finding.
CaseConsistency ==
    Reporting =>
        IF /\ \E i \in 1 .. Len(identifiers) : identifiers[i].case = "LowerSnake"
           /\ \E i \in 1 .. Len(identifiers) : identifiers[i].case = "Camel"
        THEN /\ \A i \in 1 .. Len(identifiers) :
                    Cardinality(FindingsFor(identifiers[i]))
                        = Cardinality(SameIdentifier(identifiers[i]))
             /\ Cardinality(ConsistencyFindings) = Len(identifiers)
        ELSE ConsistencyFindings = {}

\* C7 witness: a_b and cD, parameters of one function, and a third
\* identifier were classified; three consistency findings are reported.
CaseConsistencyWitness ==
    /\ Reporting
    /\ Len(identifiers) = 3
    /\ \E i \in 1 .. 3 : identifiers[i].text = a_b /\ identifiers[i].case = "LowerSnake"
    /\ \E i \in 1 .. 3 : identifiers[i].text = cD /\ identifiers[i].case = "Camel"
    /\ Cardinality(ConsistencyFindings) = 3

\* C8: no path takes part in the linting pass twice, and no finding is
\* printed twice for the same file and position.
EachFileOnce ==
    /\ \A i, j \in 1 .. Len(files) : i # j => files[i] # files[j]
    /\ \A i, j \in 1 .. Len(printed) : i # j => printed[i] # printed[j]

\* (file, start row, start column), lexicographically
position_less(a, b) ==
    \/ path_less(a.file, b.file)
    \/ a.file = b.file /\ a.row < b.row
    \/ a.file = b.file /\ a.row = b.row /\ a.col < b.col

\* C9: the findings handed to the reporter are sorted by file path, then
\* start row, then start column.
ReportSorted ==
    Reporting =>
        \A i, j \in 1 .. Len(lints) : i < j => ~position_less(lints[j], lints[i])

\* C10: a run that dies (a file that cannot be read, in discovery or in the
\* lint pass, or any other panic) has printed nothing, and whatever is
\* printed is printed after the last read.
FailClosed ==
    /\ pc \in Died => printed = <<>>
    /\ printed # <<>> => Reporting

\* C10 witness: the second pass of the lint loop could not read its file,
\* with findings of the first already collected; nothing was printed.
FailClosedWitness ==
    /\ pc = "read_error"
    /\ idx = 2
    /\ lints # <<>>
    /\ printed = <<>>

====
